---------------------------- MODULE Spec2Model ----------------------------
(***************************************************************************)
(* Model of the SVG -> DST conversion pipeline of inkstitch-converter:     *)
(*   convert.py  extract_svg_paths, parse_path_data, convert_svg_to_dst,   *)
(*               main                                                      *)
(*   server.py   /convert and /test-conversion handlers                    *)
(*                                                                         *)
(* Numbers.  Document coordinates are Python floats.  Every coordinate the *)
(* model reads from an SVG is an integer literal, and circle vertices are  *)
(* taken to the nearest 1/128, so a document coordinate is an integer      *)
(* count of 1/128 document units: such values, their sums and their        *)
(* differences are exact in binary64.  The division that computes the      *)
(* scale and the multiplication that transforms a point are IEEE-754       *)
(* binary64 operations, round to nearest even, on a 53-bit significand     *)
(* held as four 16-bit limbs (most significant first).                     *)
(***************************************************************************)
EXTENDS Integers, Sequences, FiniteSets, TLC

(***************************************************************************)
(* Multi-limb naturals: five 16-bit limbs <<n4, n3, n2, n1, n0>>, most     *)
(* significant first.                                                      *)
(***************************************************************************)
LimbBase == 65536

Pow2 == <<1, 2, 4, 8, 16, 32, 64, 128, 256, 512, 1024, 2048, 4096, 8192,
          16384, 32768, 65536, 131072, 262144, 524288, 1048576, 2097152>>
\* 2^k for k in 0..21
P2(k) == Pow2[k + 1]

\* m * d for a four-limb m and a small natural d (d < 2^14)
MulSmall(m, d) ==
    LET p0 == m[4] * d
        p1 == m[3] * d + p0 \div LimbBase
        p2 == m[2] * d + p1 \div LimbBase
        p3 == m[1] * d + p2 \div LimbBase
    IN  <<p3 \div LimbBase, p3 % LimbBase, p2 % LimbBase, p1 % LimbBase,
          p0 % LimbBase>>

\* [q, r]: n \div w and n % w for a five-limb n and a small w (0 < w < 2^14)
DivSmall(n, w) ==
    LET c1 == n[1]
        c2 == (c1 % w) * LimbBase + n[2]
        c3 == (c2 % w) * LimbBase + n[3]
        c4 == (c3 % w) * LimbBase + n[4]
        c5 == (c4 % w) * LimbBase + n[5]
    IN  [q |-> <<c1 \div w, c2 \div w, c3 \div w, c4 \div w, c5 \div w>>,
         r |-> c5 % w]

\* n + 1 (never overflows the top limb where it is used)
Inc(n) ==
    LET v5 == n[5] + 1
        v4 == n[4] + v5 \div LimbBase
        v3 == n[3] + v4 \div LimbBase
        v2 == n[2] + v3 \div LimbBase
        v1 == n[1] + v2 \div LimbBase
    IN  <<v1, v2 % LimbBase, v3 % LimbBase, v4 % LimbBase, v5 % LimbBase>>

\* n \div 2^s for 0 <= s <= 16
Shr(n, s) ==
    LET lo == P2(s)
        up == P2(16 - s)
    IN  << n[1] \div lo,
           (n[1] % lo) * up + n[2] \div lo,
           (n[2] % lo) * up + n[3] \div lo,
           (n[3] % lo) * up + n[4] \div lo,
           (n[4] % lo) * up + n[5] \div lo >>

\* (n + fraction) / 2^s to the nearest integer, ties to even, 1 <= s <= 16;
\* sticky says that a nonzero fraction lies below n
ShrRoundEven(n, s, sticky) ==
    LET q    == Shr(n, s)
        rem  == n[5] % P2(s)
        half == P2(s - 1)
        up   == rem > half \/ (rem = half /\ (sticky \/ q[5] % 2 = 1))
    IN  IF up THEN Inc(q) ELSE q

RECURSIVE LimbsLe(_, _)
\* a <= b for equally long limb sequences
LimbsLe(a, b) ==
    IF a = <<>> THEN TRUE
    ELSE IF Head(a) < Head(b) THEN TRUE
    ELSE IF Head(a) > Head(b) THEN FALSE
    ELSE LimbsLe(Tail(a), Tail(b))

IsZeroLimbs(n) == \A i \in 1..Len(n) : n[i] = 0

(***************************************************************************)
(* binary64 values >= 0: value = m * 2^e with 2^52 <= m < 2^53 held in     *)
(* four limbs, or zero.                                                    *)
(***************************************************************************)
DZero == [m |-> <<0, 0, 0, 0>>, e |-> 0]

\* how many bits n (2^52 <= n < 2^69) has beyond 53
ExcessBits(n) ==
    LET hi == n[1] * LimbBase + n[2]
    IN  CHOOSE s \in 0..16 : P2(s + 4) <= hi /\ hi < P2(s + 5)

\* the binary64 nearest to (n + fraction) * 2^e, ties to even
RoundNearestEven(n, e, sticky) ==
    LET s == ExcessBits(n)
    IN  IF s = 0 THEN [m |-> Tail(n), e |-> e]
        ELSE LET r == ShrRoundEven(n, s, sticky)
             IN  IF r[2] >= 32 THEN [m |-> <<16, 0, 0, 0>>, e |-> e + s + 1]
                 ELSE [m |-> Tail(r), e |-> e + s]

\* number of fractional bits of a document coordinate
FPBits == 7
FP == 128

\* a / (w / FP) in binary64, for a binary64 a > 0 and an integer w > 0
FDiv(a, w) ==
    LET d == DivSmall(a.m \o <<0>>, w)
    IN  RoundNearestEven(d.q, a.e - 16 + FPBits, d.r # 0)

\* (k / FP) * s in binary64, for an integer k >= 0 and a binary64 s > 0
FMul(k, s) ==
    IF k = 0 THEN DZero
    ELSE RoundNearestEven(MulSmall(s.m, k), s.e - FPBits, FALSE)

IsZero(a) == IsZeroLimbs(a.m)

\* a <= b on binary64 values >= 0
DLe(a, b) ==
    IF IsZero(a) THEN TRUE
    ELSE IF IsZero(b) THEN FALSE
    ELSE a.e < b.e \/ (a.e = b.e /\ LimbsLe(a.m, b.m))

DLt(a, b) == ~DLe(b, a)

\* Python min(a, b, c): the first of the smallest
DMin3(a, b, c) ==
    LET ab == IF DLt(b, a) THEN b ELSE a
    IN  IF DLt(c, ab) THEN c ELSE ab

(***************************************************************************)
(* GARMENT_SETTINGS: max_width_mm and max_height_mm as the binary64 values *)
(* of the literals 44.45, 63.5, 88.9, 127.0 and 152.4.                     *)
(***************************************************************************)
D44_45 == [m |-> <<22, 14745, 39321, 39322>>, e |-> -47]
D63_5  == [m |-> <<31, 49152, 0, 0>>, e |-> -47]
D88_9  == [m |-> <<22, 14745, 39321, 39322>>, e |-> -46]
D127_0 == [m |-> <<31, 49152, 0, 0>>, e |-> -46]
D152_4 == [m |-> <<19, 3276, 52428, 52429>>, e |-> -45]
D2_0   == [m |-> <<16, 0, 0, 0>>, e |-> -51]
D1_0   == [m |-> <<16, 0, 0, 0>>, e |-> -52]

GARMENT_SETTINGS ==
    [ hat    |-> [max_width_mm |-> D44_45, max_height_mm |-> D44_45],
      shirt  |-> [max_width_mm |-> D63_5,  max_height_mm |-> D88_9],
      jacket |-> [max_width_mm |-> D127_0, max_height_mm |-> D152_4] ]

\* variant: the default profile of the lookup is 'shirt'
SettingsGetShirt(g) ==
    IF g \in DOMAIN GARMENT_SETTINGS THEN GARMENT_SETTINGS[g]
    ELSE GARMENT_SETTINGS["shirt"]

\* GARMENT_SETTINGS.get(garment_type, GARMENT_SETTINGS['hat'])
SettingsGet(g) ==
    IF g \in DOMAIN GARMENT_SETTINGS THEN GARMENT_SETTINGS[g]
    ELSE GARMENT_SETTINGS["hat"]

(***************************************************************************)
(* SVG documents.  A document is malformed XML, or a root element with an  *)
(* optional default namespace and a sequence of child elements in document *)
(* order.  A numeric attribute is <<n>> (the text of the integer n) or     *)
(* <<>> (text that float() rejects); a path's d is a sequence of tokens,   *)
(* command letters and integer literals.                                   *)
(***************************************************************************)
SvgNs == "http://www.w3.org/2000/svg"
OtherNs == "urn:other"

Num(n) == <<n>>
NaN == <<>>
C(l) == [t |-> "cmd", v |-> 0, c |-> l]
N(n) == [t |-> "num", v |-> n, c |-> ""]

Path(d) == [kind |-> "path", d |-> d, a |-> <<>>]
Rect(x, y, w, h) == [kind |-> "rect", d |-> <<>>, a |-> <<x, y, w, h>>]
Circle(cx, cy, r) == [kind |-> "circle", d |-> <<>>, a |-> <<cx, cy, r>>]

\* float(text): <<value in 1/FP>> or <<>> when float() raises ValueError
Float(a) == IF a = NaN THEN <<>> ELSE <<a[1] * FP>>

\* re.findall(r'-?\d*\.?\d+', path_data): the numeric literals, in order
FindNumbers(d) == SelectSeq(d, LAMBDA tok : tok.t = "num")

RECURSIVE PairUp(_, _)
\* for i in range(0, len(numbers) - 1, 2): points.append((x, y))
PairUp(numbers, i) ==
    IF i >= Len(numbers) THEN <<>>
    ELSE <<<<numbers[i].v * FP, numbers[i + 1].v * FP>>>>
         \o PairUp(numbers, i + 2)

parse_path_data(path_data) ==
    LET numbers == FindNumbers(path_data)
        points  == PairUp(numbers, 1)
    IN  IF Len(numbers) < 4 THEN <<>>
        ELSE IF Len(points) >= 2 THEN <<points>>
        ELSE <<>>

\* the namespace the lookups use: the root's own when it has one
LookupNs(svg) == IF svg.xmlns # "" THEN svg.xmlns ELSE SvgNs

\* root.findall('.//svg:<kind>', ns): children inherit the root's default
\* namespace, in document order
FindAll(svg, kind) ==
    IF svg.xmlns = LookupNs(svg)
    THEN SelectSeq(svg.elems, LAMBDA el : el.kind = kind)
    ELSE <<>>

RECURSIVE PathLoop(_)
PathLoop(els) ==
    IF els = <<>> THEN <<>>
    ELSE LET d == Head(els).d
         IN  (IF d # <<>> THEN parse_path_data(d) ELSE <<>>)
             \o PathLoop(Tail(els))

RectPath(x, y, width, height) ==
    << <<x, y>>, <<x + width, y>>, <<x + width, y + height>>,
       <<x, y + height>>, <<x, y>> >>

RECURSIVE RectLoop(_, _)
\* [raised, paths]: raised when float() fails on an attribute
RectLoop(els, paths) ==
    IF els = <<>> THEN [raised |-> FALSE, paths |-> paths]
    ELSE LET a == Head(els).a
         IN  IF \E i \in 1..4 : Float(a[i]) = <<>>
             THEN [raised |-> TRUE, paths |-> paths]
             ELSE LET x == Float(a[1])[1]
                      y == Float(a[2])[1]
                      width == Float(a[3])[1]
                      height == Float(a[4])[1]
                  IN  RectLoop(Tail(els),
                          IF width > 0 /\ height > 0
                          THEN Append(paths, RectPath(x, y, width, height))
                          ELSE paths)

\* cos(2*pi*i/16) and sin(2*pi*i/16), i = 0..15, to the nearest 1/128
Cos16 == <<128, 118, 91, 49, 0, -49, -91, -118,
           -128, -118, -91, -49, 0, 49, 91, 118>>
Sin16 == <<0, 49, 91, 118, 128, 118, 91, 49,
           0, -49, -91, -118, -128, -118, -91, -49>>

\* cx, cy in 1/FP; r the integer radius
CirclePath(cx, cy, r) ==
    LET poly == [i \in 1..16 |-> <<cx + r * Cos16[i], cy + r * Sin16[i]>>]
    IN  Append(poly, poly[1])

RECURSIVE CircleLoop(_, _)
CircleLoop(els, paths) ==
    IF els = <<>> THEN [raised |-> FALSE, paths |-> paths]
    ELSE LET a == Head(els).a
         IN  IF \E i \in 1..3 : Float(a[i]) = <<>>
             THEN [raised |-> TRUE, paths |-> paths]
             ELSE LET cx == Float(a[1])[1]
                      cy == Float(a[2])[1]
                      r  == Float(a[3])[1]
                  IN  CircleLoop(Tail(els),
                          IF r > 0
                          THEN Append(paths, CirclePath(cx, cy, r \div FP))
                          ELSE paths)

\* variant: the except clause keeps what was extracted before the error
OnParseErrorKeep(paths) == paths

\* what the except clause of extract_svg_paths returns
OnParseError(paths) == <<>>

extract_svg_paths(svg) ==
    IF ~svg.wellformed THEN OnParseError(<<>>)
    ELSE LET p1 == PathLoop(FindAll(svg, "path"))
             p2 == RectLoop(FindAll(svg, "rect"), p1)
             p3 == CircleLoop(FindAll(svg, "circle"), p2.paths)
         IN  IF p2.raised THEN OnParseError(p2.paths)
             ELSE IF p3.raised THEN OnParseError(p3.paths)
             ELSE p3.paths

(***************************************************************************)
(* Inputs.                                                                 *)
(***************************************************************************)
\* longest child-element sequence of a document
MaxElems == 2

PDup    == Path(<<C("M"), N(0), N(0), C("L"), N(0), N(0), C("L"), N(39), N(39)>>)
PHoriz  == Path(<<C("M"), N(0), N(0), C("L"), N(39), N(0)>>)
PShort  == Path(<<C("M"), N(5), N(5)>>)
PVert   == Path(<<C("M"), N(10), N(0), C("L"), N(10), N(39)>>)
POdd    == Path(<<C("M"), N(10), N(20), C("L"), N(100), N(50), C("V"), N(7)>>)
R100    == Rect(Num(0), Num(0), Num(100), Num(100))
RZeroW  == Rect(Num(0), Num(0), Num(0), Num(50))
RBad    == Rect(NaN, Num(0), Num(10), Num(10))
C50     == Circle(Num(50), Num(50), Num(50))
CBad    == Circle(Num(50), Num(50), NaN)

Elems == {PDup, PHoriz, PVert, PShort, POdd, R100, RZeroW, RBad, C50, CBad}

RECURSIVE SeqsUpTo(_, _)
SeqsUpTo(S, n) ==
    IF n = 0 THEN {<<>>}
    ELSE LET shorter == SeqsUpTo(S, n - 1)
         IN  shorter \cup {Append(q, x) : q \in shorter, x \in S}

Malformed == [wellformed |-> FALSE, xmlns |-> "", elems |-> <<>>]

Svgs ==
    {Malformed} \cup
    {[wellformed |-> TRUE, xmlns |-> ns, elems |-> els] :
        ns \in {"", SvgNs, OtherNs}, els \in SeqsUpTo(Elems, MaxElems)}

GarmentIds == {"hat", "shirt", "jacket", "Hat"}

(***************************************************************************)
(* State.                                                                  *)
(***************************************************************************)
VARIABLES
    pc,            \* position of the request being served
    entry,         \* "api", "cli", "convert", "test-conversion"
    garment_type,
    svg_content,
    settings,
    paths,
    bounds,        \* [min_x, min_y, width, height], in 1/FP
    scale,
    pattern,       \* <<>> before EmbPattern() is created, else <<commands>>
    path_index,    \* 1-based position of the for loop over paths
    point_index,   \* 1-based position of the inner loop over path[1:]
    dst_file,      \* <<>> or <<the pattern handed to write_dst>>
    result,        \* <<>> or <<success, message>> of convert_svg_to_dst
    response       \* what the entry point gives its caller

vars == <<pc, entry, garment_type, svg_content, settings, paths, bounds,
          scale, pattern, path_index, point_index, dst_file, result,
          response>>

NoBounds == [min_x |-> 0, min_y |-> 0, width |-> 0, height |-> 0]
NoResponse == [kind |-> "none", code |-> 0, body |-> ""]

Init ==
    /\ pc = "idle"
    /\ entry = "api"
    /\ garment_type = "hat"
    /\ svg_content = Malformed
    /\ settings = GARMENT_SETTINGS["hat"]
    /\ paths = <<>>
    /\ bounds = NoBounds
    /\ scale = DZero
    /\ pattern = <<>>
    /\ path_index = 1
    /\ point_index = 1
    /\ dst_file = <<>>
    /\ result = <<>>
    /\ response = NoResponse

\* a request arrives; requests share no mutable state, so one request is
\* followed from its arrival to its response
Begin(e, g, svg, next, resp) ==
    /\ pc = "idle"
    /\ pc' = next
    /\ entry' = e
    /\ garment_type' = g
    /\ svg_content' = svg
    /\ settings' = GARMENT_SETTINGS["hat"]
    /\ paths' = <<>>
    /\ bounds' = NoBounds
    /\ scale' = DZero
    /\ pattern' = <<>>
    /\ path_index' = 1
    /\ point_index' = 1
    /\ dst_file' = <<>>
    /\ result' = <<>>
    /\ response' = resp

\* the garment check of main and of both handlers
ValidGarment(g) == g \in {"hat", "shirt", "jacket"}

\* a direct call of convert_svg_to_dst(svg_content, output_path, garment_type)
CallConvert ==
    /\ pc = "idle"
    /\ \E g \in GarmentIds, svg \in Svgs :
        Begin("api", g, svg, "convert", NoResponse)

\* python convert.py <input.svg> <output.dst> <garment_type>
Main ==
    /\ pc = "idle"
    /\ \E g \in GarmentIds, svg \in Svgs, argc \in {3, 4}, exists \in BOOLEAN :
        IF argc # 4
        THEN Begin("cli", g, svg, "done",
                   [kind |-> "exit", code |-> 1, body |-> "Usage"])
        ELSE IF ~ValidGarment(g)
        THEN Begin("cli", g, svg, "done",
                   [kind |-> "exit", code |-> 1,
                    body |-> "Invalid garment type"])
        ELSE IF ~exists
        THEN Begin("cli", g, svg, "done",
                   [kind |-> "exit", code |-> 1,
                    body |-> "Input file not found"])
        ELSE Begin("cli", g, svg, "convert", NoResponse)

\* POST /convert; the accepted request runs convert.py on the saved upload
HttpConvert ==
    /\ pc = "idle"
    /\ \E g \in GarmentIds, svg \in Svgs, has_file \in BOOLEAN,
       filename \in {"", "design.svg", "design.png"} :
        IF ~has_file
        THEN Begin("convert", g, svg, "done",
                   [kind |-> "http", code |-> 400,
                    body |-> "No SVG file provided"])
        ELSE IF filename = ""
        THEN Begin("convert", g, svg, "done",
                   [kind |-> "http", code |-> 400, body |-> "No file selected"])
        ELSE IF ~ValidGarment(g)
        THEN Begin("convert", g, svg, "done",
                   [kind |-> "http", code |-> 400,
                    body |-> "Invalid garment type"])
        ELSE IF filename # "design.svg"
        THEN Begin("convert", g, svg, "done",
                   [kind |-> "http", code |-> 400,
                    body |-> "File must be an SVG"])
        ELSE Begin("convert", g, svg, "convert", NoResponse)

\* POST /test-conversion
HttpTestConversion ==
    /\ pc = "idle"
    /\ \E g \in GarmentIds, svg \in Svgs, has_content \in BOOLEAN :
        IF ~has_content
        THEN Begin("test-conversion", g, svg, "done",
                   [kind |-> "http", code |-> 400,
                    body |-> "No SVG content provided"])
        ELSE IF ~ValidGarment(g)
        THEN Begin("test-conversion", g, svg, "done",
                   [kind |-> "http", code |-> 400,
                    body |-> "Invalid garment type"])
        ELSE Begin("test-conversion", g, svg, "convert", NoResponse)

(***************************************************************************)
(* convert_svg_to_dst, one action per step.                                *)
(***************************************************************************)
DefaultSquare ==
    << <<0, 0>>, <<100 * FP, 0>>, <<100 * FP, 100 * FP>>, <<0, 100 * FP>>,
       <<0, 0>> >>

\* if not paths: paths = [[(0, 0), (100, 0), (100, 100), (0, 100), (0, 0)]]
OrDefault(extracted) ==
    IF extracted = <<>> THEN <<DefaultSquare>> ELSE extracted

\* settings lookup and paths = extract_svg_paths(svg_content)
Extract ==
    /\ pc = "convert"
    /\ settings' = SettingsGet(garment_type)
    /\ paths' = extract_svg_paths(svg_content)
    /\ pc' = "fallback"
    /\ UNCHANGED <<entry, garment_type, svg_content, bounds, scale, pattern,
                   path_index, point_index, dst_file, result, response>>

\* the empty-geometry fallback
Fallback ==
    /\ pc = "fallback"
    /\ paths' = OrDefault(paths)
    /\ pc' = "bounds"
    /\ UNCHANGED <<entry, garment_type, svg_content, settings, bounds, scale,
                   pattern, path_index, point_index, dst_file, result,
                   response>>

Min(S) == CHOOSE v \in S : \A w \in S : v <= w
Max(S) == CHOOSE v \in S : \A w \in S : v >= w

\* all_points: the points of every path
AllPoints(ps) ==
    UNION {{ps[i][j] : j \in 1..Len(ps[i])} : i \in 1..Len(ps)}

ComputeBounds(ps) ==
    LET xs == {p[1] : p \in AllPoints(ps)}
        ys == {p[2] : p \in AllPoints(ps)}
    IN  [min_x |-> Min(xs), min_y |-> Min(ys),
         width |-> Max(xs) - Min(xs), height |-> Max(ys) - Min(ys)]

\* variant: only the width is checked
DegenerateWidthOnly(b) == b.width <= 0

\* if width <= 0 or height <= 0: return False, "Invalid SVG dimensions"
Degenerate(b) == b.width <= 0 \/ b.height <= 0

\* variant: the scale fits the width alone, without the height or the cap
ComputeScaleWidthOnly(st, b) ==
    IF b.width > 0 THEN FDiv(st.max_width_mm, b.width) ELSE D1_0

\* scale = min(scale_x, scale_y, 2.0)
ComputeScale(st, b) ==
    LET scale_x == IF b.width > 0 THEN FDiv(st.max_width_mm, b.width)
                   ELSE D1_0
        scale_y == IF b.height > 0 THEN FDiv(st.max_height_mm, b.height)
                   ELSE D1_0
    IN  DMin3(scale_x, scale_y, D2_0)

\* bounds, the degenerate check, the scale and EmbPattern()
Bounds ==
    /\ pc = "bounds"
    /\ IF \A i \in 1..Len(paths) : paths[i] = <<>>
       THEN /\ result' = <<FALSE, "No valid paths found in SVG">>
            /\ pc' = "return"
            /\ UNCHANGED <<bounds, scale, pattern>>
       ELSE LET b == ComputeBounds(paths)
            IN  /\ bounds' = b
                /\ IF Degenerate(b)
                   THEN /\ result' = <<FALSE, "Invalid SVG dimensions">>
                        /\ pc' = "return"
                        /\ UNCHANGED <<scale, pattern>>
                   ELSE /\ scale' = ComputeScale(settings, b)
                        /\ pattern' = <<<<>>>>
                        /\ pc' = "path"
                        /\ UNCHANGED result
    /\ UNCHANGED <<entry, garment_type, svg_content, settings, paths,
                   path_index, point_index, dst_file, response>>

\* variant: the points are scaled without being translated to the origin
TransformNoOffset(p, b, sc) == <<FMul(p[1], sc), FMul(p[2], sc)>>

\* ((x - min_x) * scale, (y - min_y) * scale)
Transform(p, b, sc) == <<FMul(p[1] - b.min_x, sc), FMul(p[2] - b.min_y, sc)>>

\* variant: the first point of a path is stitched to, not moved to
MoveCmdAsStitch(xy) == [cmd |-> "STITCH", x |-> xy[1], y |-> xy[2]]

\* the command pattern.move_abs adds for the first point of a path
MoveCmd(xy) == [cmd |-> "MOVE", x |-> xy[1], y |-> xy[2]]
\* the command pattern.stitch_abs adds
StitchCmd(xy) == [cmd |-> "STITCH", x |-> xy[1], y |-> xy[2]]

\* pattern.end(): END at the current position
EndCmd(cmds) ==
    IF cmds = <<>> THEN [cmd |-> "END", x |-> DZero, y |-> DZero]
    ELSE [cmd |-> "END", x |-> cmds[Len(cmds)].x, y |-> cmds[Len(cmds)].y]

\* head of "for path_index, path in enumerate(paths)": skip a path shorter
\* than 2, else move to its first point
NextPath ==
    /\ pc = "path"
    /\ IF path_index > Len(paths)
       THEN /\ pc' = "end"
            /\ UNCHANGED <<pattern, path_index, point_index>>
       ELSE IF Len(paths[path_index]) < 2
       THEN /\ path_index' = path_index + 1
            /\ UNCHANGED <<pc, pattern, point_index>>
       ELSE /\ pattern' = <<Append(pattern[1],
                   MoveCmd(Transform(paths[path_index][1], bounds, scale)))>>
            /\ point_index' = 2
            /\ pc' = "stitch"
            /\ UNCHANGED path_index
    /\ UNCHANGED <<entry, garment_type, svg_content, settings, paths, bounds,
                   scale, dst_file, result, response>>

\* "for point in path[1:]": one stitch_abs
Stitch ==
    /\ pc = "stitch"
    /\ point_index <= Len(paths[path_index])
    /\ pattern' = <<Append(pattern[1],
           StitchCmd(Transform(paths[path_index][point_index], bounds,
                               scale)))>>
    /\ IF point_index = Len(paths[path_index])
       THEN /\ path_index' = path_index + 1
            /\ point_index' = 1
            /\ pc' = "path"
       ELSE /\ point_index' = point_index + 1
            /\ UNCHANGED <<pc, path_index>>
    /\ UNCHANGED <<entry, garment_type, svg_content, settings, paths, bounds,
                   scale, dst_file, result, response>>

\* pattern.end()
End ==
    /\ pc = "end"
    /\ pattern' = <<Append(pattern[1], EndCmd(pattern[1]))>>
    /\ pc' = "write"
    /\ UNCHANGED <<entry, garment_type, svg_content, settings, paths, bounds,
                   scale, path_index, point_index, dst_file, result,
                   response>>

\* pyembroidery.write_dst(pattern, output_path); return True, ...
Write ==
    /\ pc = "write"
    /\ dst_file' = pattern
    /\ result' = <<TRUE, "Successfully converted">>
    /\ pc' = "return"
    /\ UNCHANGED <<entry, garment_type, svg_content, settings, paths, bounds,
                   scale, pattern, path_index, point_index, response>>

(***************************************************************************)
(* What each entry point does with the result.                             *)
(***************************************************************************)
\* the direct caller receives the (success, message) tuple
Return ==
    /\ pc = "return" /\ entry = "api"
    /\ response' = [kind |-> "return", code |-> 0, body |-> result[2]]
    /\ pc' = "done"
    /\ UNCHANGED <<entry, garment_type, svg_content, settings, paths, bounds,
                   scale, pattern, path_index, point_index, dst_file, result>>

\* main: JSON on stdout and exit 0, or JSON on stderr and exit 1
MainExit ==
    /\ pc = "return" /\ entry = "cli"
    /\ response' = IF result[1]
                   THEN [kind |-> "exit", code |-> 0, body |-> result[2]]
                   ELSE [kind |-> "exit", code |-> 1, body |-> result[2]]
    /\ pc' = "done"
    /\ UNCHANGED <<entry, garment_type, svg_content, settings, paths, bounds,
                   scale, pattern, path_index, point_index, dst_file, result>>

\* /convert: the DST file, or 500; the temporary directory is removed
HttpConvertRespond ==
    /\ pc = "return" /\ entry = "convert"
    /\ response' = IF result[1]
                   THEN IF dst_file # <<>>
                        THEN [kind |-> "http", code |-> 200,
                              body |-> "DST file"]
                        ELSE [kind |-> "http", code |-> 500,
                              body |-> "DST file was not generated"]
                   ELSE [kind |-> "http", code |-> 500, body |-> result[2]]
    /\ dst_file' = <<>>
    /\ pc' = "done"
    /\ UNCHANGED <<entry, garment_type, svg_content, settings, paths, bounds,
                   scale, pattern, path_index, point_index, result>>

\* /test-conversion: the DST content in JSON, or 500
HttpTestRespond ==
    /\ pc = "return" /\ entry = "test-conversion"
    /\ response' = IF result[1]
                   THEN IF dst_file # <<>>
                        THEN [kind |-> "http", code |-> 200,
                              body |-> "dst_content"]
                        ELSE [kind |-> "http", code |-> 500,
                              body |-> "DST file was not generated"]
                   ELSE [kind |-> "http", code |-> 500,
                         body |-> "Conversion failed"]
    /\ dst_file' = <<>>
    /\ pc' = "done"
    /\ UNCHANGED <<entry, garment_type, svg_content, settings, paths, bounds,
                   scale, pattern, path_index, point_index, result>>

Next ==
    \/ CallConvert
    \/ Main
    \/ HttpConvert
    \/ HttpTestConversion
    \/ Extract
    \/ Fallback
    \/ Bounds
    \/ NextPath
    \/ Stitch
    \/ End
    \/ Write
    \/ Return
    \/ MainExit
    \/ HttpConvertRespond
    \/ HttpTestRespond

Spec == Init /\ [][Next]_vars

(***************************************************************************)
(* Helpers of the properties.                                              *)
(***************************************************************************)
RECURSIVE ShrRound(_, _, _)
\* n / 2^k to the nearest integer, ties to even (k >= 1)
ShrRound(n, k, sticky) ==
    IF k > 16
    THEN ShrRound(<<0>> \o SubSeq(n, 1, 4), k - 16, sticky \/ n[5] # 0)
    ELSE ShrRoundEven(n, k, sticky)

\* a position in mm as a whole number of 0.1 mm units, rounded to nearest
Units(d) ==
    IF IsZero(d) THEN 0
    ELSE LET r == ShrRound(MulSmall(d.m, 10), 0 - d.e, FALSE)
         IN  r[Len(r)] + LimbBase * r[Len(r) - 1]

\* the binary64 value one unit in the last place above d
NextUp(d) == [m |-> Tail(Inc(<<0>> \o d.m)), e |-> d.e]

\* convert_svg_to_dst has handed its pattern to write_dst and returns
Written == pc = "return" /\ dst_file # <<>>

\* the extraction found geometry of its own
HasGeometry == extract_svg_paths(svg_content) # <<>>

SvgOf(els) == [wellformed |-> TRUE, xmlns |-> SvgNs, elems |-> els]

(***************************************************************************)
(* C1.  Whenever convert_svg_to_dst reaches the DST writer, the command    *)
(* sequence handed over starts with a MOVE and ends with exactly one END:  *)
(* the first command is MOVE, the last is END, and no END occurs before    *)
(* the last position.                                                      *)
(***************************************************************************)
C1_MoveFirstOneEndLast ==
    Written =>
        LET c == dst_file[1]
        IN  /\ Len(c) >= 2
            /\ c[1].cmd = "MOVE"
            /\ c[Len(c)].cmd = "END"
            /\ \A i \in 1..(Len(c) - 1) : c[i].cmd # "END"

\* a successful conversion of two polylines extracted from the document
C1_Witness ==
    /\ pc = "return" /\ result[1]
    /\ HasGeometry /\ Len(paths) = 2
    /\ dst_file = pattern

(***************************************************************************)
(* C2.  For every SVG with at least one extractable shape, the pattern     *)
(* contains no STITCH command with the same (x, y) as the command          *)
(* immediately before it.                                                  *)
(***************************************************************************)
C2_NoDuplicateStitch ==
    (Written /\ HasGeometry) =>
        LET c == dst_file[1]
        IN  \A i \in 2..Len(c) :
                c[i].cmd = "STITCH" =>
                    (c[i].x # c[i - 1].x \/ c[i].y # c[i - 1].y)

(***************************************************************************)
(* C3.  extract_svg_paths returns the polylines in document order of their *)
(* elements, whatever the element kinds: the result is the concatenation,  *)
(* element by element in document order, of what each element yields.      *)
(***************************************************************************)
RECURSIVE InDocumentOrder(_, _)
InDocumentOrder(svg, els) ==
    IF els = <<>> THEN <<>>
    ELSE extract_svg_paths([svg EXCEPT !.elems = <<Head(els)>>])
         \o InDocumentOrder(svg, Tail(els))

C3_DocumentOrder ==
    (pc = "fallback" /\ paths # <<>>) =>
        paths = InDocumentOrder(svg_content, svg_content.elems)

(***************************************************************************)
(* C4.  In every pattern handed to the DST writer, each command's per-axis *)
(* displacement from the previous command's position (starting at (0,0),   *)
(* in 0.1 mm units rounded to nearest) is within the +-121 units of one    *)
(* DST record.                                                             *)
(***************************************************************************)
Within121(a, b) == Units(a) - Units(b) <= 121 /\ Units(b) - Units(a) <= 121

C4_DeltasEncodable ==
    Written =>
        LET c == dst_file[1]
        IN  \A i \in 1..Len(c) :
                LET px == IF i = 1 THEN DZero ELSE c[i - 1].x
                    py == IF i = 1 THEN DZero ELSE c[i - 1].y
                IN  Within121(c[i].x, px) /\ Within121(c[i].y, py)

(***************************************************************************)
(* C5.  Whenever extraction yields zero polylines, convert_svg_to_dst      *)
(* substitutes the default square, completes successfully, and reports the *)
(* substitution in its result, so that the result differs from the result  *)
(* of a conversion that used the SVG's own geometry.                       *)
(***************************************************************************)
C5_SubstitutionReported ==
    (pc = "return" /\ ~HasGeometry) =>
        /\ paths = <<DefaultSquare>>
        /\ result[1]
        /\ result # <<TRUE, "Successfully converted">>

(***************************************************************************)
(* C6 as stated.  A garment id other than 'hat', 'shirt', 'jacket' is      *)
(* non-fatal at every entry point: the request is not rejected for it and  *)
(* the conversion proceeds with the 'hat' profile.                         *)
(***************************************************************************)
UnknownGarment ==
    pc \notin {"idle", "convert"} /\ garment_type \notin DOMAIN GARMENT_SETTINGS

ProceedsWithHat ==
    /\ response.body # "Invalid garment type"
    /\ settings = GARMENT_SETTINGS["hat"]
    /\ pc \in {"return", "done"} => result # <<>>

C6_UnknownGarmentFallsBack == UnknownGarment => ProceedsWithHat

(***************************************************************************)
(* C6 amended.  A direct call of convert_svg_to_dst with such an id is     *)
(* non-fatal and proceeds with the 'hat' profile; main and the /convert    *)
(* and /test-conversion handlers reject the request (exit status 1, HTTP   *)
(* 400) before any conversion starts.                                      *)
(***************************************************************************)
RejectedAtEntry ==
    /\ pc = "done"
    /\ response.kind \in {"exit", "http"}
    /\ response.code \in {1, 400}
    /\ result = <<>> /\ paths = <<>> /\ dst_file = <<>>

C6_FallsBackOnlyInDirectCall ==
    UnknownGarment =>
        IF entry = "api" THEN ProceedsWithHat ELSE RejectedAtEntry

\* a direct call with the id 'Hat' has converted the document's own geometry
\* with the 'hat' profile
C6_Witness ==
    /\ pc = "return" /\ entry = "api" /\ garment_type = "Hat"
    /\ result[1] /\ HasGeometry
    /\ settings = GARMENT_SETTINGS["hat"]

(***************************************************************************)
(* C7 as stated.  For every non-degenerate geometry and every profile,     *)
(* scale <= 2.0, scale * width <= max_width_mm and scale * height <=       *)
(* max_height_mm, and every emitted coordinate lies in                     *)
(* [0, max_width_mm] x [0, max_height_mm].                                 *)
(***************************************************************************)
ScaleFits(limit_w, limit_h) ==
    (pc = "return" /\ pattern # <<>>) =>
        /\ DLe(scale, D2_0)
        /\ DLe(FMul(bounds.width, scale), limit_w)
        /\ DLe(FMul(bounds.height, scale), limit_h)
        /\ \A i \in 1..Len(pattern[1]) :
               /\ DLe(pattern[1][i].x, limit_w)
               /\ DLe(pattern[1][i].y, limit_h)

C7_ScaleFitsExactly ==
    ScaleFits(settings.max_width_mm, settings.max_height_mm)

(***************************************************************************)
(* C7 amended.  scale <= 2.0, and scale * width, scale * height and every  *)
(* emitted coordinate exceed the profile's maximum by at most one unit in  *)
(* the last place of that maximum (binary64 rounding of the division and   *)
(* of the product).                                                        *)
(***************************************************************************)
C7_ScaleFitsWithinUlp ==
    ScaleFits(NextUp(settings.max_width_mm), NextUp(settings.max_height_mm))

\* a finished pattern whose scale is below the cap and whose width product
\* lands above the maximum
C7_Witness ==
    /\ pc = "return" /\ result[1]
    /\ DLt(scale, D2_0)
    /\ DLt(settings.max_width_mm, FMul(bounds.width, scale))

(***************************************************************************)
(* C8.  When the bounds over all points have width <= 0 or height <= 0,    *)
(* convert_svg_to_dst fails with an error result before any output: no     *)
(* pattern is created, the writer is never called, no file is written.     *)
(***************************************************************************)
ZeroArea(ps) ==
    LET xs == {p[1] : p \in AllPoints(ps)}
        ys == {p[2] : p \in AllPoints(ps)}
    IN  Max(xs) - Min(xs) <= 0 \/ Max(ys) - Min(ys) <= 0

C8_DegenerateAborts ==
    (pc \in {"path", "stitch", "end", "write", "return", "done"}
        /\ paths # <<>> /\ ZeroArea(paths))
    => /\ pc \in {"return", "done"}
       /\ result # <<>> /\ ~result[1]
       /\ pattern = <<>>
       /\ dst_file = <<>>

\* a single horizontal or vertical path has been refused
C8_Witness ==
    /\ pc = "return"
    /\ Len(paths) = 1 /\ Len(paths[1]) = 2 /\ ZeroArea(paths)
    /\ result = <<FALSE, "Invalid SVG dimensions">>

(***************************************************************************)
(* C9.  extract_svg_paths never fails: whenever parsing raises (malformed  *)
(* XML, or a non-numeric attribute on any rect or circle it visits), the   *)
(* result is the empty list, also when earlier elements had already        *)
(* yielded polylines.                                                      *)
(***************************************************************************)
HasBadAttr(el) == \E i \in 1..Len(el.a) : el.a[i] = NaN

ParsingRaises(svg) ==
    \/ ~svg.wellformed
    \/ /\ svg.xmlns # ""
       /\ \E i \in 1..Len(svg.elems) :
              svg.elems[i].kind \in {"rect", "circle"} /\ HasBadAttr(svg.elems[i])

C9_RaiseGivesEmpty ==
    (pc = "fallback" /\ ParsingRaises(svg_content)) => paths = <<>>

\* a path that yields a polyline, followed by a rect whose x is not a number
C9_Witness ==
    /\ pc = "fallback"
    /\ svg_content = SvgOf(<<PDup, RBad>>)
    /\ paths = <<>>

(***************************************************************************)
(* C10.  The command sequence equals the reference sequence: per polyline  *)
(* in extraction order one MOVE to T(first point) and one STITCH to T(p)   *)
(* for each later point, T(x, y) = ((x - min_x) * scale, (y - min_y) *     *)
(* scale), then one END; so there are as many MOVEs as polylines and as    *)
(* many commands as points plus one; a single 100x100 rect with 'hat'      *)
(* gives (0,0), (44.45,0), (44.45,44.45), (0,44.45), (0,0) and END.        *)
(***************************************************************************)
RefT(p) ==
    <<FMul(p[1] - bounds.min_x, scale), FMul(p[2] - bounds.min_y, scale)>>

RefCmd(kind, t) == [cmd |-> kind, x |-> t[1], y |-> t[2]]

RefPolyline(poly) ==
    [j \in 1..Len(poly) |->
        RefCmd(IF j = 1 THEN "MOVE" ELSE "STITCH", RefT(poly[j]))]

RECURSIVE RefCommands(_)
RefCommands(ps) ==
    IF ps = <<>> THEN <<>>
    ELSE RefPolyline(Head(ps)) \o RefCommands(Tail(ps))

RECURSIVE TotalPoints(_)
TotalPoints(ps) ==
    IF ps = <<>> THEN 0 ELSE Len(Head(ps)) + TotalPoints(Tail(ps))

RectHatExample ==
    << [cmd |-> "MOVE",   x |-> DZero,  y |-> DZero],
       [cmd |-> "STITCH", x |-> D44_45, y |-> DZero],
       [cmd |-> "STITCH", x |-> D44_45, y |-> D44_45],
       [cmd |-> "STITCH", x |-> DZero,  y |-> D44_45],
       [cmd |-> "STITCH", x |-> DZero,  y |-> DZero],
       [cmd |-> "END",    x |-> DZero,  y |-> DZero] >>

C10_ReferenceSequence ==
    Written =>
        LET c == dst_file[1]
        IN  /\ SubSeq(c, 1, Len(c) - 1) = RefCommands(paths)
            /\ c[Len(c)].cmd = "END"
            /\ Cardinality({i \in 1..Len(c) : c[i].cmd = "MOVE"}) = Len(paths)
            /\ Len(c) = TotalPoints(paths) + 1
            /\ (svg_content = SvgOf(<<R100>>) /\ garment_type = "hat")
                   => c = RectHatExample

\* two polylines whose bounds do not start at the origin have been written
C10_Witness ==
    /\ pc = "return" /\ result[1]
    /\ svg_content = SvgOf(<<POdd, POdd>>)
    /\ bounds.min_x > 0 /\ bounds.min_y > 0
    /\ Len(dst_file[1]) = 5

=============================================================================
